---- MODULE Spec2Model ----
(***************************************************************************)
(* Model of the guest monolithic kernel payload                            *)
(* (payload/gkernel/src/main.rs, module monolithic_kernel, the riscv64 /   *)
(* aarch64 build).  run() builds a user address space, loads the embedded  *)
(* user program and a user stack, creates a user context and a task whose  *)
(* closure is the trap dispatcher loop, spawns the task and joins it.      *)
(*                                                                         *)
(* The runtime underneath (axmm, axhal, axtask) is the environment: what   *)
(* it returns to the code of main.rs is an input of the action that makes  *)
(* the call.  A panic (expect / panic!) halts the whole system.            *)
(***************************************************************************)
EXTENDS Integers, Sequences, FiniteSets, TLC

\* ------------------------------------------------------------------------
\* Constants of main.rs

USER_STACK_SIZE == 65536

KERNEL_STACK_SIZE == 262144

APP_ENTRY == 4096

USER_ASPACE_BASE == 0

USER_ASPACE_SIZE == 1073741824

PAGE_SIZE_4K == 4096

SYS_EXIT == 93

ENOSYS == 38

\* ------------------------------------------------------------------------
\* Bounds of the model

\* Number of physical frames the frame allocator manages.
MaxFrames == 17

\* Largest number of answered unimplemented syscalls that is counted.
MaxServed == 2

\* ------------------------------------------------------------------------
\* 64-bit registers (usize) as four 16-bit limbs, most significant first.

LimbBase == 2^16

U64(w3, w2, w1, w0) == [w3 |-> w3, w2 |-> w2, w1 |-> w1, w0 |-> w0]

\* A small non-negative number as usize.
ToUsize(n) == U64(0, 0, (n \div LimbBase) % LimbBase, n % LimbBase)

\* `v as usize` for a signed v that fits 32 bits: two's complement, sign
\* extended to 64 bits.
IsizeAsUsize(v) ==
    LET ext == IF v < 0 THEN LimbBase - 1 ELSE 0
    IN  U64(ext, ext, (v \div LimbBase) % LimbBase, v % LimbBase)

\* `u as i32`: the low 32 bits, read as two's complement.
AsI32Low16(u) == u.w0

AsI32(u) ==
    IF u.w1 >= LimbBase \div 2
    THEN (u.w1 - LimbBase) * LimbBase + u.w0
    ELSE u.w1 * LimbBase + u.w0

\* ------------------------------------------------------------------------
\* The embedded user program, per target architecture (a minimal program
\* that calls SYS_EXIT(0)).

Archs == {"riscv64", "aarch64"}

USER_APP(arch) ==
    IF arch = "riscv64"
    THEN << 147, 8, 208, 5,   19, 5, 0, 0,   115, 0, 0, 0 >>
    ELSE << 168, 11, 128, 210,   0, 0, 128, 210,   1, 0, 0, 212 >>

\* ------------------------------------------------------------------------
\* Mapping flags

CodeFlags == {"READ", "WRITE", "EXECUTE", "USER"}

StackFlagsExec == {"READ", "WRITE", "EXECUTE", "USER"}

StackFlags == {"READ", "WRITE", "USER"}

\* ------------------------------------------------------------------------
\* Physical memory and the frame allocator of the runtime.

\* Physical address of frame i.
FrameAddr(i) == (i + 1) * PAGE_SIZE_4K

\* The n lowest addresses of S, in ascending order.
LowestN(S, n) ==
    [ i \in 1..n |-> CHOOSE x \in S : Cardinality({ y \in S : y < x }) = i - 1 ]

SeqRange(s) == { s[i] : i \in 1..Len(s) }

\* SharedPages::new(size, Size4K): size / 4K frames, or an error when the
\* allocator has too few.
PagesNeeded(size) == (size + PAGE_SIZE_4K - 1) \div PAGE_SIZE_4K

CanAlloc(free, size) == Cardinality(free) >= PagesNeeded(size)

AllocPages(free, size) == LowestN(free, PagesNeeded(size))

\* phys_to_virt: the kernel's linear mapping of physical memory.
PhysToVirt(paddr) == [region |-> "linear", off |-> paddr]

VirtToPhys(kva) == kva.off

\* core::ptr::copy_nonoverlapping(src, dst, count) with dst a kernel
\* virtual address of the linear mapping: byte i of src is stored at dst+i.
CopyReversed(m, src, dst, count) ==
    [ a \in (DOMAIN m) \cup { VirtToPhys(dst) + i : i \in 0..(count - 1) } |->
        IF a >= VirtToPhys(dst) /\ a < VirtToPhys(dst) + count
        THEN src[count - (a - VirtToPhys(dst))]
        ELSE m[a] ]

CopyNonoverlapping(m, src, dst, count) ==
    [ a \in (DOMAIN m) \cup { VirtToPhys(dst) + i : i \in 0..(count - 1) } |->
        IF a >= VirtToPhys(dst) /\ a < VirtToPhys(dst) + count
        THEN src[a - VirtToPhys(dst) + 1]
        ELSE m[a] ]

\* The bytes of physical memory at [paddr, paddr + n); a byte never written
\* reads as -1 (no value of a byte).
ReadPhys(m, paddr, n) ==
    [ i \in 1..n |-> IF (paddr + i - 1) \in DOMAIN m THEN m[paddr + i - 1] ELSE -1 ]

\* ------------------------------------------------------------------------
\* Address spaces (axmm::AddrSpace): a virtual range, a page-table root,
\* the memory areas mapped through AddrSpace::map and the page table.

IsAligned4K(a) == a % PAGE_SIZE_4K = 0

Overlaps(s1, n1, s2, n2) == s1 < s2 + n2 /\ s2 < s1 + n1

\* The kernel address spaces a platform may configure: above the user
\* region on every supported platform; one that overlaps the user region
\* stands for a misconfigured platform.
KernelAspaces ==
    { [ base |-> USER_ASPACE_BASE + USER_ASPACE_SIZE + k * PAGE_SIZE_4K,
        size |-> 4 * PAGE_SIZE_4K,
        root |-> "kernel_root",
        pt   |-> { [ start  |-> USER_ASPACE_BASE + USER_ASPACE_SIZE + k * PAGE_SIZE_4K,
                     size   |-> 2 * PAGE_SIZE_4K,
                     flags  |-> {"READ", "EXECUTE"},
                     frames |-> << >>,
                     owner  |-> "kernel" ],
                   [ start  |-> USER_ASPACE_BASE + USER_ASPACE_SIZE + (k + 2) * PAGE_SIZE_4K,
                     size   |-> 2 * PAGE_SIZE_4K,
                     flags  |-> {"READ", "WRITE"},
                     frames |-> << >>,
                     owner  |-> "kernel" ] } ] : k \in {0} }
    \cup
    { [ base |-> USER_ASPACE_BASE + USER_ASPACE_SIZE - 2 * PAGE_SIZE_4K,
        size |-> 4 * PAGE_SIZE_4K,
        root |-> "kernel_root",
        pt   |-> { [ start  |-> USER_ASPACE_BASE + USER_ASPACE_SIZE - 2 * PAGE_SIZE_4K,
                     size   |-> 4 * PAGE_SIZE_4K,
                     flags  |-> {"READ", "WRITE", "EXECUTE"},
                     frames |-> << >>,
                     owner  |-> "kernel" ] } ] }

\* Page-table roots the runtime may hand to a new address space.
UserRoots == {"root_a", "root_b"}

NoSpace == [ exists |-> FALSE, base |-> 0, size |-> 0, root |-> "none",
             areas |-> {}, pt |-> {} ]

\* AddrSpace::end()
End(space) == space.base + space.size

\* AddrSpace::map's own checks: the range lies in the space, is 4K aligned
\* and overlaps no area of the space.
MapAllowed(space, start, size) ==
    /\ start >= space.base
    /\ start + size <= End(space)
    /\ IsAligned4K(start)
    /\ IsAligned4K(size)
    /\ \A a \in space.areas : ~Overlaps(start, size, a.start, a.size)

\* The area and its page-table entries after a successful AddrSpace::map
\* with a shared backend: every page of the range is mapped to the frame of
\* the same index.
MapAreaReplacing(space, start, size, flags, frames) ==
    LET area == [ start |-> start, size |-> size, flags |-> flags,
                  frames |-> frames, owner |-> "user" ]
    IN  [ space EXCEPT !.areas = @ \cup {area}, !.pt = {area} ]

MapArea(space, start, size, flags, frames) ==
    LET area == [ start |-> start, size |-> size, flags |-> flags,
                  frames |-> frames, owner |-> "user" ]
    IN  [ space EXCEPT !.areas = @ \cup {area}, !.pt = @ \cup {area} ]

\* PageTable::query(vaddr): the physical address vaddr translates to.
IsMapped(space, vaddr) ==
    \E e \in space.pt : e.start <= vaddr /\ vaddr < e.start + e.size

Entry(space, vaddr) ==
    CHOOSE e \in space.pt : e.start <= vaddr /\ vaddr < e.start + e.size

Query(space, vaddr) ==
    LET e == Entry(space, vaddr)
    IN  e.frames[((vaddr - e.start) \div PAGE_SIZE_4K) + 1]
            + ((vaddr - e.start) % PAGE_SIZE_4K)

\* ------------------------------------------------------------------------
\* State

VARIABLES
    arch,        \* target architecture of the build
    kspace,      \* the kernel address space (axmm::kernel_aspace())
    free,        \* free physical frames of the allocator
    mem,         \* physical memory: physical address -> byte written
    pc,          \* position of the main thread in run()
    uspace,      \* run(): let mut uspace
    pages,       \* load_user_app / init_user_stack: let pages
    paddr,       \* load_user_app: let (paddr, _, _)
    ustack_top,  \* run(): let ustack_top
    pt_root,     \* run(): let pt_root
    uctx,        \* run(): let mut uctx, moved into the task's closure
    ustate,      \* state of the user context: Idle, Running, Trapped, Terminated
    reason,      \* dispatcher loop: let reason
    task,        \* the task: state, page-table root, exit code
    tpc,         \* position of the task in its closure
    satp,        \* page-table root the scheduler installed for the task
    inRun,       \* number of uctx.run() calls in progress
    served,      \* unimplemented syscalls answered so far (counted to MaxServed)
    exit_code,   \* run(): let exit_code (the result of join)
    joins        \* number of times join has returned

vars == << arch, kspace, free, mem, pc, uspace, pages, paddr, ustack_top,
           pt_root, uctx, ustate, reason, task, tpc, satp, inRun, served,
           exit_code, joins >>

mainVars == << pc, uspace, pages, paddr, ustack_top, pt_root, exit_code, joins >>

taskVars == << uctx, ustate, reason, tpc, satp, inRun, served >>

envVars == << arch, kspace >>

NoCtx == [ ip |-> 0, sp |-> 0, arg0 |-> ToUsize(0), sysno |-> ToUsize(0),
           retval |-> ToUsize(0) ]

NoTask == [ state |-> "none", root |-> "none", kstack |-> 0, code |-> 0 ]

\* A panic (expect, unwrap_or_else(panic!), panic!) halts the system: no
\* thread takes another step.
Halted == pc = "panicked" \/ tpc = "panicked"

Init ==
    /\ arch \in Archs
    /\ kspace \in KernelAspaces
    /\ \E used \in 0..MaxFrames :
           free = { FrameAddr(i) : i \in used..(MaxFrames - 1) }
    /\ mem = << >>
    /\ pc = "new_empty"
    /\ uspace = NoSpace
    /\ pages = << >>
    /\ paddr = 0
    /\ ustack_top = 0
    /\ pt_root = "none"
    /\ uctx = NoCtx
    /\ ustate = "none"
    /\ reason = "none"
    /\ task = NoTask
    /\ tpc = "none"
    /\ satp = "kernel_root"
    /\ inRun = 0
    /\ served = 0
    /\ exit_code = 0
    /\ joins = 0

\* ------------------------------------------------------------------------
\* run(): setup of the address space

\* .expect(..) and .unwrap_or_else(|_| panic!(..)) on an Err: run() panics
\* instead of going on to its next statement.
OnErrIgnored(next) == next

OnErr(next) == "panicked"

\* AddrSpace::new_empty(va!(USER_ASPACE_BASE), USER_ASPACE_SIZE).expect(..)
\* The runtime allocates the page-table root, or fails.
NewEmpty ==
    /\ ~Halted
    /\ pc = "new_empty"
    /\ \E ok \in BOOLEAN, root \in UserRoots :
        IF ok
        THEN /\ uspace' = [ exists |-> TRUE, base |-> USER_ASPACE_BASE,
                            size |-> USER_ASPACE_SIZE, root |-> root,
                            areas |-> {}, pt |-> {} ]
             /\ pc' = "copy_mappings"
        ELSE /\ uspace' = uspace
             /\ pc' = OnErr("copy_mappings")
    /\ UNCHANGED << pages, paddr, ustack_top, pt_root, exit_code, joins >>
    /\ UNCHANGED << free, mem, task >>
    /\ UNCHANGED taskVars
    /\ UNCHANGED envVars

\* uspace.copy_mappings_from(&*axmm::kernel_aspace().lock()).expect(..)
\* Fails when the two virtual ranges overlap; otherwise the page-table
\* entries of the kernel's range are copied.
CopyMappingsExecutableOnly(space, other) ==
    [ space EXCEPT !.pt = @ \cup { e \in other.pt : "EXECUTE" \in e.flags } ]

CopyMappingsFrom(space, other) ==
    [ space EXCEPT !.pt = @ \cup other.pt ]

CopyMappings ==
    /\ ~Halted
    /\ pc = "copy_mappings"
    /\ IF Overlaps(uspace.base, uspace.size, kspace.base, kspace.size)
       THEN /\ uspace' = uspace
            /\ pc' = OnErr("load_alloc")
       ELSE /\ uspace' = CopyMappingsFrom(uspace, kspace)
            /\ pc' = "load_alloc"
    /\ UNCHANGED << pages, paddr, ustack_top, pt_root, exit_code, joins >>
    /\ UNCHANGED << free, mem, task >>
    /\ UNCHANGED taskVars
    /\ UNCHANGED envVars

\* ------------------------------------------------------------------------
\* load_user_app

\* SharedPages::new(PAGE_SIZE_4K, PageSize::Size4K).expect(..)
LoadAlloc ==
    /\ ~Halted
    /\ pc = "load_alloc"
    /\ IF CanAlloc(free, PAGE_SIZE_4K)
       THEN /\ pages' = AllocPages(free, PAGE_SIZE_4K)
            /\ free' = free \ SeqRange(pages')
            /\ pc' = "load_map"
       ELSE /\ pages' = pages
            /\ free' = free
            /\ pc' = OnErr("load_map")
    /\ UNCHANGED << uspace, paddr, ustack_top, pt_root, exit_code, joins >>
    /\ UNCHANGED << mem, task >>
    /\ UNCHANGED taskVars
    /\ UNCHANGED envVars

\* uspace.map(start, PAGE_SIZE_4K, flags, false, backend).expect(..)
\* ptOk: whether the runtime could allocate the page tables of the range.
LoadMapSpaceTwoPages(space, frames) ==
    MapArea(space, APP_ENTRY, 2 * PAGE_SIZE_4K, CodeFlags, frames)

LoadMapSpace(space, frames) ==
    MapArea(space, APP_ENTRY, PAGE_SIZE_4K, CodeFlags, frames)

LoadMap ==
    /\ ~Halted
    /\ pc = "load_map"
    /\ \E ptOk \in BOOLEAN :
        IF ptOk /\ MapAllowed(uspace, APP_ENTRY, PAGE_SIZE_4K)
        THEN /\ uspace' = LoadMapSpace(uspace, pages)
             /\ pc' = "load_query"
        ELSE /\ uspace' = uspace
             /\ pc' = OnErr("load_query")
    /\ UNCHANGED << pages, paddr, ustack_top, pt_root, exit_code, joins >>
    /\ UNCHANGED << free, mem, task >>
    /\ UNCHANGED taskVars
    /\ UNCHANGED envVars

\* uspace.page_table().query(start).unwrap_or_else(|_| panic!(..))
LoadQuery ==
    /\ ~Halted
    /\ pc = "load_query"
    /\ IF IsMapped(uspace, APP_ENTRY)
       THEN /\ paddr' = Query(uspace, APP_ENTRY)
            /\ pc' = "load_copy"
       ELSE /\ paddr' = paddr
            /\ pc' = OnErr("load_copy")
    /\ UNCHANGED << uspace, pages, ustack_top, pt_root, exit_code, joins >>
    /\ UNCHANGED << free, mem, task >>
    /\ UNCHANGED taskVars
    /\ UNCHANGED envVars

\* copy_nonoverlapping(USER_APP.as_ptr(), phys_to_virt(paddr).as_mut_ptr(),
\*                     USER_APP.len())
LoadCopy ==
    /\ ~Halted
    /\ pc = "load_copy"
    /\ mem' = CopyNonoverlapping(mem, USER_APP(arch), PhysToVirt(paddr),
                                 Len(USER_APP(arch)))
    /\ pc' = "stack_alloc"
    /\ UNCHANGED << uspace, pages, paddr, ustack_top, pt_root, exit_code, joins >>
    /\ UNCHANGED << free, task >>
    /\ UNCHANGED taskVars
    /\ UNCHANGED envVars

\* ------------------------------------------------------------------------
\* init_user_stack

\* SharedPages::new(USER_STACK_SIZE, PageSize::Size4K).expect(..)
StackAlloc ==
    /\ ~Halted
    /\ pc = "stack_alloc"
    /\ IF CanAlloc(free, USER_STACK_SIZE)
       THEN /\ pages' = AllocPages(free, USER_STACK_SIZE)
            /\ free' = free \ SeqRange(pages')
            /\ pc' = "stack_map"
       ELSE /\ pages' = pages
            /\ free' = free
            /\ pc' = OnErr("stack_map")
    /\ UNCHANGED << uspace, paddr, ustack_top, pt_root, exit_code, joins >>
    /\ UNCHANGED << mem, task >>
    /\ UNCHANGED taskVars
    /\ UNCHANGED envVars

\* let ustack_top = uspace.end();
UstackTopBelowEnd(space) == End(space) - PAGE_SIZE_4K

UstackTop(space) == End(space)

UstackVaddrShifted(space) == UstackTop(space) - USER_STACK_SIZE - USER_STACK_SIZE

\* let ustack_vaddr = ustack_top - USER_STACK_SIZE;
UstackVaddr(space) == UstackTop(space) - USER_STACK_SIZE

\* uspace.map(ustack_vaddr, USER_STACK_SIZE, flags, false, backend).expect(..)
StackMapSpace(space, frames) ==
    MapArea(space, UstackVaddr(space), USER_STACK_SIZE, StackFlags, frames)

\* init_user_stack returns ustack_top.
StackMap ==
    /\ ~Halted
    /\ pc = "stack_map"
    /\ \E ptOk \in BOOLEAN :
        IF ptOk /\ MapAllowed(uspace, UstackVaddr(uspace), USER_STACK_SIZE)
        THEN /\ uspace' = StackMapSpace(uspace, pages)
             /\ ustack_top' = UstackTop(uspace)
             /\ pc' = "get_root"
        ELSE /\ uspace' = uspace
             /\ ustack_top' = ustack_top
             /\ pc' = OnErr("get_root")
    /\ UNCHANGED << pages, paddr, pt_root, exit_code, joins >>
    /\ UNCHANGED << free, mem, task >>
    /\ UNCHANGED taskVars
    /\ UNCHANGED envVars

\* ------------------------------------------------------------------------
\* run(): user context, task, spawn and join

\* let pt_root = uspace.page_table_root();
PageTableRoot(space) == space.root

GetRoot ==
    /\ ~Halted
    /\ pc = "get_root"
    /\ pt_root' = PageTableRoot(uspace)
    /\ pc' = "new_uctx"
    /\ UNCHANGED << uspace, pages, paddr, ustack_top, exit_code, joins >>
    /\ UNCHANGED << free, mem, task >>
    /\ UNCHANGED taskVars
    /\ UNCHANGED envVars

\* UserContext::new(entry, ustack_top, arg0)
UserContextNewSwapped(entry, sp, arg0) ==
    [ ip |-> sp, sp |-> entry, arg0 |-> arg0,
      sysno |-> ToUsize(0), retval |-> ToUsize(0) ]

UserContextNew(entry, sp, arg0) ==
    [ ip |-> entry, sp |-> sp, arg0 |-> arg0,
      sysno |-> ToUsize(0), retval |-> ToUsize(0) ]

\* let mut uctx = UserContext::new(APP_ENTRY, ustack_top, 0);
NewUctx ==
    /\ ~Halted
    /\ pc = "new_uctx"
    /\ uctx' = UserContextNew(APP_ENTRY, ustack_top, ToUsize(0))
    /\ ustate' = "Idle"
    /\ pc' = "new_task"
    /\ UNCHANGED << uspace, pages, paddr, ustack_top, pt_root, exit_code, joins >>
    /\ UNCHANGED << free, mem, task >>
    /\ UNCHANGED << reason, tpc, satp, inRun, served >>
    /\ UNCHANGED envVars

\* let mut task = axtask::TaskInner::new(closure, "userboot", KERNEL_STACK_SIZE);
\* A new task runs on the kernel's page table until a root is set.
NewTask ==
    /\ ~Halted
    /\ pc = "new_task"
    /\ task' = [ state |-> "created", root |-> kspace.root,
                 kstack |-> KERNEL_STACK_SIZE, code |-> 0 ]
    /\ tpc' = "entry"
    /\ pc' = "set_root"
    /\ UNCHANGED << uspace, pages, paddr, ustack_top, pt_root, exit_code, joins >>
    /\ UNCHANGED << free, mem >>
    /\ UNCHANGED << uctx, ustate, reason, satp, inRun, served >>
    /\ UNCHANGED envVars

\* task.ctx_mut().set_page_table_root(pt_root);
SetPageTableRootSkipped(t, root) == t

SetPageTableRoot(t, root) == [ t EXCEPT !.root = root ]

SetRoot ==
    /\ ~Halted
    /\ pc = "set_root"
    /\ task' = SetPageTableRoot(task, pt_root)
    /\ pc' = "spawn"
    /\ UNCHANGED << uspace, pages, paddr, ustack_top, pt_root, exit_code, joins >>
    /\ UNCHANGED << free, mem >>
    /\ UNCHANGED taskVars
    /\ UNCHANGED envVars

\* let user_task = axtask::spawn_task(task);
Spawn ==
    /\ ~Halted
    /\ pc = "spawn"
    /\ task' = [ task EXCEPT !.state = "spawned" ]
    /\ pc' = "join"
    /\ UNCHANGED << uspace, pages, paddr, ustack_top, pt_root, exit_code, joins >>
    /\ UNCHANGED << free, mem >>
    /\ UNCHANGED taskVars
    /\ UNCHANGED envVars

\* let exit_code = user_task.join();  blocks until the task has exited and
\* returns its exit code.
JoinResultDefault(t) == 0

JoinResult(t) == t.code

\* task.join() blocks the caller until the task has exited.
JoinReadyAlways(t) == TRUE

JoinReady(t) == t.state = "exited"

Join ==
    /\ ~Halted
    /\ pc = "join"
    /\ JoinReady(task)
    /\ exit_code' = JoinResult(task)
    /\ joins' = joins + 1
    /\ pc' = "report"
    /\ UNCHANGED << uspace, pages, paddr, ustack_top, pt_root >>
    /\ UNCHANGED << free, mem, task >>
    /\ UNCHANGED taskVars
    /\ UNCHANGED envVars

\* println!("monolithic kernel exit [{:?}] normally!", exit_code); run()
\* returns and its local uspace is dropped: the areas are unmapped and
\* their frames go back to the allocator.
Return ==
    /\ ~Halted
    /\ pc = "report"
    /\ free' = free \cup UNION { SeqRange(a.frames) : a \in uspace.areas }
    /\ uspace' = NoSpace
    /\ pc' = "returned"
    /\ UNCHANGED << pages, paddr, ustack_top, pt_root, exit_code, joins >>
    /\ UNCHANGED << mem, task >>
    /\ UNCHANGED taskVars
    /\ UNCHANGED envVars

\* ------------------------------------------------------------------------
\* The task's closure: the dispatcher loop

\* What uctx.run() may return (axhal::uspace::ReturnReason).
Reasons == {"Syscall", "Interrupt", "PageFault", "Exception"}

\* Register values a trap may leave in the user context.
SysNos == { ToUsize(SYS_EXIT), ToUsize(999), U64(0, 1, 0, SYS_EXIT) }

Arg0s == { ToUsize(0), ToUsize(7), IsizeAsUsize(-1),
           U64(0, 0, LimbBase \div 2, 0),
           U64(0, 1, 0, 7) }

Ips == { APP_ENTRY, APP_ENTRY + 8 }

\* The scheduler switches to the task for the first time: it installs the
\* task's page-table root and the closure starts
\* (println!("Enter user space: ..")).
TaskStart ==
    /\ ~Halted
    /\ task.state = "spawned"
    /\ tpc = "entry"
    /\ satp' = task.root
    /\ tpc' = "loop"
    /\ UNCHANGED << uctx, ustate, reason, inRun, served >>
    /\ UNCHANGED mainVars
    /\ UNCHANGED << free, mem, task >>
    /\ UNCHANGED envVars

\* loop { let reason = uctx.run();   -- the call: user mode is entered.
CallRunUnhandled(at) == at \in {"loop", "match"}

CallRunReady(at) == at = "loop"

CallRun ==
    /\ ~Halted
    /\ task.state = "spawned"
    /\ CallRunReady(tpc)
    /\ ustate' = "Running"
    /\ inRun' = inRun + 1
    /\ tpc' = "in_run"
    /\ UNCHANGED << uctx, reason, satp, served >>
    /\ UNCHANGED mainVars
    /\ UNCHANGED << free, mem, task >>
    /\ UNCHANGED envVars

\* uctx.run() returns: a trap has happened and the runtime has saved the
\* user registers in uctx.  What the user program did is the input.  The
\* return-value register is the one the trap left (the register of
\* argument 0 on these targets) or the slot as it was.
RunReturn ==
    /\ ~Halted
    /\ tpc = "in_run"
    /\ \E r \in Reasons, n \in SysNos, a \in Arg0s, i \in Ips :
         \E rv \in {a, uctx.retval} :
           /\ reason' = r
           /\ uctx' = [ uctx EXCEPT !.ip = i, !.sysno = n, !.arg0 = a,
                                    !.retval = rv ]
    /\ ustate' = "Trapped"
    /\ inRun' = inRun - 1
    /\ tpc' = "match"
    /\ UNCHANGED << satp, served >>
    /\ UNCHANGED mainVars
    /\ UNCHANGED << free, mem, task >>
    /\ UNCHANGED envVars

\* match reason { ReturnReason::Syscall => match uctx.sysno() { SYS_EXIT =>
IsExitOrZeroArg(r, ctx) ==
    r = "Syscall" /\ (ctx.sysno = ToUsize(SYS_EXIT) \/ ctx.arg0 = ToUsize(0))

IsExit(r, ctx) == r = "Syscall" /\ ctx.sysno = ToUsize(SYS_EXIT)

IsUnimplemented(r, ctx) == r = "Syscall" /\ ctx.sysno # ToUsize(SYS_EXIT)

IsInterruptOrFault(r) == r \in {"Interrupt", "PageFault"}

IsInterrupt(r) == r = "Interrupt"

IsOther(r) == r \notin {"Syscall", "Interrupt"}

\* axtask::exit(uctx.arg0() as i32): the task ends with that exit code and
\* the call does not return.
ExitCodeZero(ctx) == 0

AfterExitReturns == "loop"

\* axtask::exit never returns: the closure stops in the SYS_EXIT arm.
AfterExit == "exited"

ExitCode(ctx) == AsI32(ctx.arg0)

HandleExit ==
    /\ ~Halted
    /\ tpc = "match"
    /\ IsExit(reason, uctx)
    /\ task' = [ task EXCEPT !.state = "exited", !.code = ExitCode(uctx) ]
    /\ ustate' = "Terminated"
    /\ tpc' = AfterExit
    /\ UNCHANGED << uctx, reason, satp, inRun, served >>
    /\ UNCHANGED mainVars
    /\ UNCHANGED << free, mem >>
    /\ UNCHANGED envVars

\* uctx.set_retval((-38isize) as usize);  then the loop continues.
UnimplementedRetvalPositive == ToUsize(ENOSYS)

UnimplementedRetval == IsizeAsUsize(-ENOSYS)

HandleUnimplemented ==
    /\ ~Halted
    /\ tpc = "match"
    /\ IsUnimplemented(reason, uctx)
    /\ uctx' = [ uctx EXCEPT !.retval = UnimplementedRetval ]
    /\ served' = IF served < MaxServed THEN served + 1 ELSE served
    /\ tpc' = "loop"
    /\ UNCHANGED << ustate, reason, satp, inRun >>
    /\ UNCHANGED mainVars
    /\ UNCHANGED << free, mem, task >>
    /\ UNCHANGED envVars

\* ReturnReason::Interrupt => { }   the loop continues.
InterruptCtxCleared(ctx) == [ ctx EXCEPT !.retval = ToUsize(0) ]

InterruptCtx(ctx) == ctx

HandleInterrupt ==
    /\ ~Halted
    /\ tpc = "match"
    /\ IsInterrupt(reason)
    /\ uctx' = InterruptCtx(uctx)
    /\ tpc' = "loop"
    /\ UNCHANGED << ustate, reason, satp, inRun, served >>
    /\ UNCHANGED mainVars
    /\ UNCHANGED << free, mem, task >>
    /\ UNCHANGED envVars

\* other => panic!("Unexpected return from user space: {:?}", other)
HandleOther ==
    /\ ~Halted
    /\ tpc = "match"
    /\ IsOther(reason)
    /\ tpc' = "panicked"
    /\ UNCHANGED << uctx, ustate, reason, satp, inRun, served >>
    /\ UNCHANGED mainVars
    /\ UNCHANGED << free, mem, task >>
    /\ UNCHANGED envVars

\* ------------------------------------------------------------------------
\* Specifications

MainStep ==
    \/ NewEmpty
    \/ CopyMappings
    \/ LoadAlloc
    \/ LoadMap
    \/ LoadQuery
    \/ LoadCopy
    \/ StackAlloc
    \/ StackMap
    \/ GetRoot
    \/ NewUctx
    \/ NewTask
    \/ SetRoot
    \/ Spawn
    \/ Join
    \/ Return

DispatcherStep ==
    \/ TaskStart
    \/ CallRun
    \/ HandleExit
    \/ HandleUnimplemented
    \/ HandleInterrupt
    \/ HandleOther

Next ==
    \/ MainStep
    \/ DispatcherStep
    \/ RunReturn

Spec == Init /\ [][Next]_vars

\* The scheduler runs every runnable thread: the main thread and the
\* dispatcher each take their next step.  Nothing makes the user program
\* trap (RunReturn).
FairSpec == Spec /\ WF_vars(MainStep) /\ WF_vars(DispatcherStep)

\* ------------------------------------------------------------------------
\* Properties

\* Exit statuses (i32) the properties are stated for.
ExitStatuses == { 0, 7, -1 }

\* The 64-bit two's-complement encoding of -38, limb by limb.
NegEnosys == U64(LimbBase - 1, LimbBase - 1, LimbBase - 1, LimbBase - ENOSYS)

\* The exit syscall is to be handled and argument 0 holds exit status c.
ExitPending(c) ==
    /\ tpc = "match"
    /\ reason = "Syscall"
    /\ uctx.sysno = U64(0, 0, 0, SYS_EXIT)
    /\ uctx.arg0 = IsizeAsUsize(c)

\* An unimplemented syscall is to be handled.
UnimplementedPending ==
    /\ tpc = "match"
    /\ reason = "Syscall"
    /\ uctx.sysno # U64(0, 0, 0, SYS_EXIT)

\* The step taken when the exit syscall with argument 0 = c is pending.
C1_ExitStep ==
    \A c \in ExitStatuses :
        ExitPending(c) =>
            /\ task'.state = "exited"
            /\ task'.code = c
            /\ tpc' = "exited"
            /\ joins' = 0

C1_JoinOnce ==
    /\ joins <= 1
    /\ (joins = 1) = (pc \in {"report", "returned"})
    /\ joins = 1 => task.state = "exited" /\ exit_code = task.code
    /\ task.state = "exited" =>
           \A c \in ExitStatuses : uctx.arg0 = IsizeAsUsize(c) => task.code = c

\* C1: when run() returns Syscall with the exit number and argument 0 = c,
\* the next step of the system ends the task with exit status c (status 0
\* for argument 0 = 0); join returns at most once and what it returns is
\* the task's exit status; and the exit is followed by join returning c.
C1_ExitTerminatesWithStatus ==
    /\ [][C1_ExitStep]_vars
    /\ []C1_JoinOnce
    /\ \A c \in ExitStatuses :
           ExitPending(c) ~> (joins = 1 /\ exit_code = c)

C1_Witness ==
    /\ pc = "report"
    /\ joins = 1
    /\ exit_code = 0
    /\ uctx.arg0 = U64(0, 0, 0, 0)
    /\ uctx.sysno = U64(0, 0, 0, SYS_EXIT)
    /\ task.state = "exited"

\* The step taken when an unimplemented syscall is pending.
C2_UnimplementedStep ==
    UnimplementedPending =>
        /\ uctx'.retval = NegEnosys
        /\ uctx'.sysno = uctx.sysno /\ uctx'.arg0 = uctx.arg0
        /\ uctx'.ip = uctx.ip /\ uctx'.sp = uctx.sp
        /\ tpc' = "loop"
        /\ task' = task /\ task.state = "spawned"
        /\ inRun' = 0
        /\ ~Halted'

C2_ContinueOnce ==
    (tpc = "loop" /\ reason = "Syscall") =>
        /\ uctx.retval = NegEnosys
        /\ tpc' = "in_run"
        /\ inRun' = 1
        /\ uctx' = uctx
        /\ task' = task /\ task.state = "spawned"

\* C2: when run() returns Syscall with a number other than the exit number,
\* the next step sets the return-value slot to -38 and goes back to the top
\* of the loop with the task alive (not exited, not panicked); from there
\* the only step is one new run call, made with that return value.
C2_UnimplementedContinues ==
    [][C2_UnimplementedStep /\ C2_ContinueOnce]_vars

C2_Witness ==
    /\ tpc = "in_run"
    /\ reason = "Syscall"
    /\ uctx.sysno = U64(0, 0, 0, 999)
    /\ uctx.retval = NegEnosys
    /\ task.state = "spawned"
    /\ served = 1

\* A run call made after an unimplemented syscall.
C3_RunAfterUnimplemented ==
    (tpc = "loop" /\ reason = "Syscall" /\ tpc' = "in_run") =>
        /\ uctx.retval = NegEnosys
        /\ uctx'.retval = NegEnosys

\* C3: after any number of interrupts and unimplemented syscalls, an exit
\* syscall with argument 0 = c is followed by join returning c (syscall 999
\* then exit with 7 gives 7), and every run call that follows an
\* unimplemented syscall is made with -38 in the return-value slot.
C3_JoinReturnsLastExit ==
    /\ [][C3_RunAfterUnimplemented]_vars
    /\ [](pc \in {"report", "returned"} =>
             \A c \in ExitStatuses :
                 uctx.arg0 = IsizeAsUsize(c) => exit_code = c)
    /\ \A c \in ExitStatuses :
           ExitPending(c) ~> (pc = "report" /\ exit_code = c)

C3_Witness ==
    /\ pc = "report"
    /\ exit_code = 7
    /\ served >= 1
    /\ uctx.arg0 = U64(0, 0, 0, 7)

\* The step taken when an unexpected reason is pending.
C4_FatalStep ==
    (tpc = "match" /\ reason \notin {"Syscall", "Interrupt"}) =>
        /\ tpc' = "panicked"
        /\ task' = task
        /\ uctx' = uctx
        /\ inRun' = 0 /\ ustate' = "Trapped"

C4_NoStepAfterPanic == tpc # "panicked"

C4_PanicState ==
    tpc = "panicked" =>
        /\ reason \notin {"Syscall", "Interrupt"}
        /\ task.state = "spawned"
        /\ ustate = "Trapped" /\ inRun = 0
        /\ joins = 0 /\ pc = "join"

\* C4: when run() returns a reason that is neither Syscall nor Interrupt,
\* the next step is the panic; after it no step is taken at all (run is not
\* called again), the task has not exited and join has not returned.
C4_UnexpectedReasonIsFatal ==
    /\ [][C4_FatalStep /\ C4_NoStepAfterPanic]_vars
    /\ []C4_PanicState

C4_Witness ==
    /\ tpc = "panicked"
    /\ reason = "PageFault"
    /\ task.state = "spawned"

\* The step taken when an interrupt is pending.
C5_InterruptStep ==
    (tpc = "match" /\ reason = "Interrupt") =>
        /\ uctx' = uctx
        /\ uspace' = uspace
        /\ mem' = mem
        /\ task' = task /\ task.state = "spawned"
        /\ ustate' = ustate
        /\ tpc' = "loop"

C5_ThenRun ==
    (tpc = "loop" /\ reason = "Interrupt") =>
        /\ tpc' = "in_run"
        /\ uctx' = uctx

\* C5: when run() returns Interrupt, the next step changes no field of the
\* user context, no mapping, no memory and not the task, and goes back to
\* the top of the loop; the step after it is a new run call.
C5_InterruptOnlyContinues == [][C5_InterruptStep /\ C5_ThenRun]_vars

C5_Witness ==
    /\ tpc = "in_run"
    /\ reason = "Interrupt"
    /\ uctx.retval = U64(0, 0, 0, 7)
    /\ task.state = "spawned"

\* A step that starts a run call.
C6_RunCallStarts ==
    inRun' > inRun =>
        /\ inRun = 0 /\ inRun' = 1
        /\ tpc = "loop"
        /\ ustate \in {"Idle", "Trapped"}
        /\ ustate' = "Running"

C6_OneRun ==
    /\ inRun \in {0, 1}
    /\ (inRun = 1) = (tpc = "in_run")
    /\ (inRun = 1) = (ustate = "Running")
    /\ tpc = "match" => ustate = "Trapped"

\* C6: at most one run call is in progress, and a run call starts only at
\* the top of the loop, when no run call is in progress and the user
\* context is Idle (first call) or Trapped with its trap handled.
C6_SequentialTrapHandling == [][C6_RunCallStarts]_vars /\ []C6_OneRun

C6_Witness ==
    /\ inRun = 1
    /\ tpc = "in_run"
    /\ reason = "Syscall"
    /\ served = 2

\* init_user_stack has returned and the address space is alive.
StackReturned ==
    pc \in {"get_root", "new_uctx", "new_task", "set_root", "spawn", "join",
            "report"}

\* The pages of [lo, hi)
PagesOf(lo, hi) == { lo + k * PAGE_SIZE_4K : k \in 0..(((hi - lo) \div PAGE_SIZE_4K) - 1) }

\* The bytes the areas of the space map inside [lo, hi)
UserMapped(space, vaddr) ==
    \E a \in space.areas : a.start <= vaddr /\ vaddr < a.start + a.size

\* Exactly USER_STACK_SIZE bytes are mapped immediately below top.
StackBelow(space, top) ==
    /\ \A v \in PagesOf(top - USER_STACK_SIZE, top) : UserMapped(space, v)
    /\ ~UserMapped(space, top - USER_STACK_SIZE - PAGE_SIZE_4K)
    /\ \E a \in space.areas :
          /\ a.start = top - 65536
          /\ a.size = 65536
          /\ Len(a.frames) = 16

\* C7 as stated: the returned address is a multiple of the page size,
\* strictly less than base + size, with the stack mapped below it.
C7_Original ==
    StackReturned =>
        /\ ustack_top % PAGE_SIZE_4K = 0
        /\ ustack_top < uspace.base + uspace.size
        /\ StackBelow(uspace, ustack_top)

\* C7 (amended): the returned address is a multiple of the page size and
\* equal to the upper bound base + size of the address space (not below
\* it), with exactly USER_STACK_SIZE bytes mapped immediately below it.
C7_StackTopIsEnd ==
    StackReturned =>
        /\ ustack_top % PAGE_SIZE_4K = 0
        /\ ustack_top = uspace.base + uspace.size
        /\ ustack_top = 1073741824
        /\ StackBelow(uspace, ustack_top)

C7_Witness ==
    /\ pc = "get_root"
    /\ ustack_top = 1073741824
    /\ Cardinality(uspace.areas) = 2

\* The area of the space that starts at vaddr.
AreasAt(space, vaddr) == { a \in space.areas : a.start = vaddr }

\* The permissions of the code and stack mappings.
C8_Flags ==
    /\ \A a \in AreasAt(uspace, 4096) :
           a.flags = {"READ", "WRITE", "EXECUTE", "USER"}
    /\ \A a \in AreasAt(uspace, 1073741824 - 65536) :
           a.flags = {"READ", "WRITE", "USER"} /\ "EXECUTE" \notin a.flags
    /\ \A a \in uspace.areas : a.start \in {4096, 1073741824 - 65536}
    /\ \A a \in uspace.areas : a \in uspace.pt
    /\ pc \in {"load_query", "load_copy", "stack_alloc", "stack_map"}
           => AreasAt(uspace, 4096) # {}
    /\ StackReturned =>
           AreasAt(uspace, 4096) # {} /\ AreasAt(uspace, 1073741824 - 65536) # {}

C8_FlagsKept ==
    \A e \in uspace.pt : \A f \in uspace'.pt :
        (e.start = f.start) => (e.flags = f.flags)

\* C8: the user stack mapping carries exactly read, write and user (never
\* execute), the program code mapping exactly read, write, execute and
\* user, in the areas and in the page table; and no step changes the
\* permissions of a mapping that stays mapped.
C8_MappingPermissions == []C8_Flags /\ [][C8_FlagsKept]_vars

C8_Witness ==
    /\ tpc = "match"
    /\ Cardinality(uspace.areas) = 2
    /\ \E a \in uspace.areas : a.flags = {"READ", "WRITE", "USER"}
    /\ \E a \in uspace.areas : a.flags = {"READ", "WRITE", "EXECUTE", "USER"}

\* load_user_app has returned and the address space is alive.
ProgramLoaded ==
    pc \in {"stack_alloc", "stack_map", "get_root", "new_uctx", "new_task",
            "set_root", "spawn", "join", "report"}

\* C9: after load_user_app, the bytes of physical memory at the address
\* the page table gives for the load address are the program image, byte
\* for byte and in order, over the whole length of the image (which fits
\* in one page).
C9_ImageRoundTrip ==
    ProgramLoaded =>
        /\ Len(USER_APP(arch)) <= PAGE_SIZE_4K
        /\ IsMapped(uspace, APP_ENTRY)
        /\ paddr = Query(uspace, APP_ENTRY)
        /\ ReadPhys(mem, Query(uspace, APP_ENTRY), Len(USER_APP(arch)))
               = USER_APP(arch)

C9_Witness ==
    /\ pc = "stack_alloc"
    /\ arch = "aarch64"
    /\ Len(USER_APP(arch)) = 12
    /\ mem[paddr] = 168 /\ mem[paddr + 11] = 212

\* The task's root in a state.
C10_RootBound ==
    /\ pc = "spawn" => task.root = uspace.root
    /\ task.state = "spawned" =>
           /\ uspace.exists
           /\ uspace.root \in UserRoots
           /\ task.root = uspace.root
           /\ task.root # kspace.root
           /\ tpc \in {"loop", "in_run", "match", "panicked"} => satp = uspace.root

C10_RootKept ==
    /\ (task.state = "spawned" /\ task'.state \in {"spawned", "exited"})
           => task'.root = task.root
    /\ (uspace.exists /\ uspace'.exists) => uspace'.root = uspace.root
    /\ task.state = "spawned" => (uspace'.exists /\ uspace'.root = uspace.root)

\* C10: the task's page-table root is the address space's root when the
\* task is handed to the scheduler and in every state from spawn until the
\* task ends; the root the scheduler installs for the task is that root;
\* neither the task's root nor the address space's root changes after
\* spawn.
C10_TaskRootIsSpaceRoot == []C10_RootBound /\ [][C10_RootKept]_vars

C10_Witness ==
    /\ task.state = "spawned"
    /\ tpc = "in_run"
    /\ task.root = "root_b"
    /\ uspace.root = "root_b"
    /\ satp = "root_b"

\* The kernel mappings have just been imported.
KernelImported == pc = "load_alloc"

\* C11: immediately after copy_mappings_from on the freshly created user
\* address space, the mappings of the user address space are exactly the
\* mappings of the kernel address space: none missing, none extra, and no
\* user area yet.
C11_ImportedMappingsExact ==
    KernelImported =>
        /\ uspace.exists
        /\ uspace.pt = kspace.pt
        /\ \A e \in kspace.pt : e \in uspace.pt
        /\ \A e \in uspace.pt : e \in kspace.pt /\ e.owner = "kernel"
        /\ uspace.areas = {}

C11_Witness ==
    /\ KernelImported
    /\ Cardinality(uspace.pt) = 2
    /\ \E e \in uspace.pt : e.flags = {"READ", "WRITE"}

\* The code area of the space.
CodeAreas(space) == { a \in space.areas : a.start = 4096 }

InBacking(a, p) ==
    \E f \in SeqRange(a.frames) : f <= p /\ p < f + PAGE_SIZE_4K

\* The length of the image rounded up to whole pages.
RoundedUp(len) == ((len + 4095) \div 4096) * 4096

\* C12: load_user_app maps at the load address the number of pages needed
\* to hold the image (its length rounded up to the page size), each with a
\* frame behind it, and every byte the copy-in step writes lies inside the
\* backing of the code mapping.
C12_CodePagesHoldImage ==
    ProgramLoaded =>
        /\ CodeAreas(uspace) # {}
        /\ \A a \in CodeAreas(uspace) :
              /\ a.size = RoundedUp(Len(USER_APP(arch)))
              /\ Len(a.frames) * 4096 = a.size
              /\ \A p \in DOMAIN mem : InBacking(a, p)
              /\ \A i \in 0..(Len(USER_APP(arch)) - 1) :
                     (paddr + i) \in DOMAIN mem /\ InBacking(a, paddr + i)

C12_Witness ==
    /\ pc = "stack_alloc"
    /\ \E a \in CodeAreas(uspace) : a.size = 4096 /\ Len(a.frames) = 1
    /\ Cardinality(DOMAIN mem) = 12

\* The task is in its dispatcher loop.
InLoop(at) == at \in {"loop", "in_run", "match"}

\* A step of the loop: it ends the loop only from the exit syscall or from
\* an unexpected reason, and goes on otherwise.
C13_LoopStep ==
    InLoop(tpc) =>
        /\ (tpc = "match" /\ reason = "Syscall" /\ uctx.sysno = U64(0, 0, 0, 93))
               => tpc' \in {"match", "exited"}
        /\ (tpc = "match" /\ reason = "Syscall" /\ uctx.sysno # U64(0, 0, 0, 93))
               => tpc' \in {"match", "loop"}
        /\ (tpc = "match" /\ reason = "Interrupt") => tpc' \in {"match", "loop"}
        /\ (tpc = "match" /\ reason \notin {"Syscall", "Interrupt"})
               => tpc' \in {"match", "panicked"}
        /\ tpc = "loop" => tpc' \in {"loop", "in_run"}
        /\ tpc = "in_run" => tpc' \in {"in_run", "match"}
        /\ ~InLoop(tpc') => (task'.state = "exited") = (tpc' = "exited")
        /\ InLoop(tpc') => (task' = task /\ task.state = "spawned" /\ ~Halted')

\* While the task is in its loop the main thread only waits in join.
C13_NoOutsideEnd == InLoop(tpc) => (pc = "join" /\ task.state = "spawned")

\* C13: the dispatcher loop ends only by the exit syscall (the task exits)
\* or by a reason other than Syscall and Interrupt (the panic); after an
\* interrupt or an unimplemented syscall it goes on, and no step of the
\* main thread ends it.
C13_LoopEndsOnlyByExitOrPanic == [][C13_LoopStep]_vars /\ []C13_NoOutsideEnd

C13_Witness ==
    /\ tpc = "exited"
    /\ task.state = "exited"
    /\ served = 2
    /\ uctx.arg0 = U64(0, 0, 0, 0)

\* The transitions of the user context.
CtxTransitions ==
    { << "none", "Idle" >>, << "Idle", "Running" >>, << "Running", "Trapped" >>,
      << "Trapped", "Running" >>, << "Trapped", "Terminated" >> }

\* A step seen from the user context.
C14_CtxStep ==
    /\ ustate' # ustate => << ustate, ustate' >> \in CtxTransitions
    /\ inRun' > inRun =>
          /\ ustate \in {"Idle", "Trapped"}
          /\ (ustate = "Idle") = (reason = "none")
          /\ ustate = "Trapped" => reason \in {"Syscall", "Interrupt"}
    /\ ustate = "Terminated" =>
          /\ ustate' = "Terminated"
          /\ inRun' = 0
          /\ tpc' = "exited"

\* The user context once the exit syscall has been handled.
C14_Terminated ==
    /\ ustate = "Terminated" =>
          /\ tpc = "exited"
          /\ inRun = 0
          /\ task.state = "exited"
    /\ task.state = "exited" => ustate = "Terminated"

\* C14: the user context goes Idle -> Running -> Trapped -> Running -> ..
\* -> Terminated and takes no other transition; the first run call is made
\* from Idle, every later one from Trapped; and once the exit syscall has
\* been handled the context stays Terminated, the closure is not back in
\* the loop and no run call is made.
C14_ContextLifecycle == [][C14_CtxStep]_vars /\ []C14_Terminated

C14_Witness ==
    /\ ustate = "Terminated"
    /\ pc = "returned"
    /\ served = 1
    /\ exit_code = 7

\* Ranges [s1, s1 + n1) and [s2, s2 + n2) have no address in common.
Disjoint(s1, n1, s2, n2) == s1 + n1 <= s2 \/ s2 + n2 <= s1

\* C15: in every state the ranges mapped in the user address space are
\* pairwise disjoint; the areas are the code range [0x1000, 0x2000) and the
\* stack range [end - 0x10000, end), disjoint from each other and inside
\* the region [0, 0x4000_0000) of the address space.
C15_RangesDisjoint ==
    uspace.exists =>
        /\ uspace.base = 0 /\ uspace.size = 1073741824
        /\ \A a \in uspace.areas :
              /\ a.start >= uspace.base
              /\ a.start + a.size <= uspace.base + uspace.size
              /\ \/ (a.start = 4096 /\ a.start + a.size = 8192)
                 \/ (a.start = 1073741824 - 65536 /\ a.start + a.size = 1073741824)
        /\ \A a \in uspace.pt : \A b \in uspace.pt :
              a # b => Disjoint(a.start, a.size, b.start, b.size)
        /\ \A a \in uspace.areas : \A b \in uspace.areas :
              a # b => Disjoint(a.start, a.size, b.start, b.size)
        /\ StackReturned => Cardinality(uspace.areas) = 2

C15_Witness ==
    /\ tpc = "match"
    /\ Cardinality(uspace.areas) = 2
    /\ Cardinality(uspace.pt) = 4
    /\ \E a \in uspace.areas : a.start = 4096
    /\ \E a \in uspace.areas : a.start + a.size = 1073741824

\* A step seen from the mappings of the user address space.
C16_MappingsStep ==
    /\ (uspace.exists /\ uspace'.exists) =>
          /\ \A e \in uspace.pt : e \in uspace'.pt
          /\ \A a \in uspace.areas : a \in uspace'.areas
    /\ (uspace.exists /\ ~uspace'.exists) => (pc = "report" /\ joins = 1)
    /\ task.state = "spawned" => uspace' = uspace

\* The kernel mappings while the dispatcher runs.
C16_KernelVisible ==
    InLoop(tpc) =>
        /\ uspace.exists
        /\ kspace.pt # {}
        /\ \A e \in kspace.pt : e \in uspace.pt

\* C16: no step removes or replaces a mapping of the user address space
\* while it exists (the mappings only grow during setup and go away only
\* when the space is dropped after join); no step of the dispatcher loop
\* changes them; and every imported kernel mapping is present whenever the
\* dispatcher handles a trap.
C16_MappingsOnlyGrow == [][C16_MappingsStep]_vars /\ []C16_KernelVisible

C16_Witness ==
    /\ tpc = "match"
    /\ reason = "Interrupt"
    /\ Cardinality(uspace.pt) = 4
    /\ \E e \in uspace.pt : e.owner = "kernel" /\ "EXECUTE" \in e.flags

\* A step of the setup: a failed step panics.
C17_SetupStep ==
    /\ (pc = "new_empty" /\ ~uspace'.exists) => pc' = "panicked"
    /\ (pc = "copy_mappings" /\ uspace'.pt = {}) => pc' = "panicked"
    /\ (pc = "load_alloc" /\ free = {}) => pc' = "panicked"
    /\ (pc = "load_map" /\ uspace'.areas = {}) => pc' = "panicked"
    /\ (pc = "load_query" /\ ~(\E e \in uspace.pt : e.start = 4096))
           => pc' = "panicked"
    /\ (pc = "stack_alloc" /\ Cardinality(free) < 16) => pc' = "panicked"
    /\ (pc = "stack_map" /\ Cardinality(uspace'.areas) < 2) => pc' = "panicked"

\* No step follows a panic of the setup.
C17_NoRetry == pc # "panicked"

\* An unimplemented syscall is answered without a panic.
C17_UnimplementedNotFatal ==
    (tpc = "match" /\ reason = "Syscall" /\ uctx.sysno # U64(0, 0, 0, 93))
        => (pc' # "panicked" /\ tpc' # "panicked")

\* The state after a panic of the setup.
C17_SetupPanicked ==
    pc = "panicked" =>
        /\ task.state = "none" /\ tpc = "none"
        /\ ustate = "none" /\ inRun = 0 /\ reason = "none"
        /\ joins = 0
        /\ satp = "kernel_root"

\* C17: when a setup step fails (new_empty, copy_mappings_from, the page
\* allocation or the mapping of code or stack, the page-table query), the
\* step panics and nothing follows: no retry, no task, no entry to user
\* mode, no exit status; and the step that answers an unimplemented syscall
\* never panics.
C17_SetupFailureIsFatal ==
    /\ [][C17_SetupStep /\ C17_NoRetry /\ C17_UnimplementedNotFatal]_vars
    /\ []C17_SetupPanicked

C17_Witness ==
    /\ pc = "panicked"
    /\ uspace.exists
    /\ Cardinality(uspace.areas) = 1
    /\ pages # <<>>

\* The setup of run() is complete: the kernel mappings are in the user
\* space, the program is loaded at the entry address, the stack is mapped
\* below its top, and the task runs on the space's page table.
C18_SetupComplete ==
    /\ pc = "join"
    /\ uspace.exists
    /\ kspace.pt # {}
    /\ \A e \in kspace.pt : e \in uspace.pt
    /\ IsMapped(uspace, 4096)
    /\ ReadPhys(mem, Query(uspace, 4096), Len(USER_APP(arch))) = USER_APP(arch)
    /\ StackBelow(uspace, ustack_top)
    /\ pt_root = uspace.root
    /\ task.state = "spawned"
    /\ task.root = uspace.root
    /\ satp = uspace.root

\* The context is run only after the setup.
C18_RunAfterSetup ==
    (tpc = "in_run" \/ ustate \in {"Running", "Trapped"}) => C18_SetupComplete

\* The first call of run finds the context as UserContext::new made it.
C18_FirstRun ==
    (ustate = "Idle" /\ ustate' = "Running") =>
        /\ C18_SetupComplete
        /\ served = 0
        /\ uctx.ip = 4096
        /\ uctx.sp = ustack_top
        /\ ustack_top = 1073741824
        /\ uctx.arg0 = U64(0, 0, 0, 0)

\* C18: user mode is entered only after the whole setup (kernel mappings
\* imported, program loaded, stack mapped, page-table root bound to the
\* task), and at the first call of run the context has the entry address
\* 0x1000, the stack pointer init_user_stack returned and a first argument
\* of zero.
C18_SetupBeforeUserMode == []C18_RunAfterSetup /\ [][C18_FirstRun]_vars

C18_Witness ==
    /\ tpc = "in_run"
    /\ ustate = "Running"
    /\ served = 0
    /\ uctx.ip = 4096
    /\ uctx.sp = 1073741824

\* While the task exists and has not exited, the address space exists and
\* is the one the task runs on.
C19_SpaceWhileAlive ==
    task.state \in {"created", "spawned"} =>
        /\ uspace.exists
        /\ Cardinality(uspace.areas) = 2
        /\ task.state = "spawned" => task.root = uspace.root
        /\ pc # "returned"

\* The address space is dropped only by run() after join has returned.
C19_DropStep ==
    (uspace.exists /\ ~uspace'.exists) =>
        /\ joins = 1
        /\ task.state = "exited"
        /\ tpc = "exited"
        /\ pc = "report" /\ pc' = "returned"

\* C19: the user address space is not destroyed while the task is alive;
\* it is destroyed only when run() returns, after join has returned for
\* the exited task.
C19_SpaceOutlivesTask == []C19_SpaceWhileAlive /\ [][C19_DropStep]_vars

C19_Witness ==
    /\ pc = "returned"
    /\ ~uspace.exists
    /\ task.state = "exited"
    /\ joins = 1

\* c is the signed 32-bit reading of the low 32 bits of u: c is congruent
\* to u modulo 2^32 (limb by limb) and is negative exactly when bit 31 of u
\* is set.
C20_IsLow32Signed(c, u) ==
    /\ c % 65536 = u.w0
    /\ (c \div 65536) % 65536 = u.w1
    /\ c < 0 <=> u.w1 >= 32768
    /\ c >= -2147483647 - 1 /\ c <= 2147483647

\* The status the exit arm gives the task.
C20_ExitStep ==
    (tpc = "match" /\ reason = "Syscall" /\ uctx.sysno = U64(0, 0, 0, 93)
       /\ task'.state = "exited") =>
        /\ C20_IsLow32Signed(task'.code, uctx.arg0)
        /\ uctx.arg0 = U64(0, 1, 0, 7) => task'.code = 7
        /\ uctx.arg0 = U64(0, 0, 32768, 0) => task'.code = -2147483647 - 1
        /\ uctx.arg0 = U64(65535, 65535, 65535, 65535) => task'.code = -1

\* The value the unimplemented arm writes: 2^64 - 38.
C20_RetvalStep ==
    (tpc = "match" /\ reason = "Syscall" /\ uctx.sysno # U64(0, 0, 0, 93)
       /\ tpc' = "loop") =>
        /\ uctx'.retval.w0 + 38 = 65536
        /\ uctx'.retval.w1 = 65535
        /\ uctx'.retval.w2 = 65535
        /\ uctx'.retval.w3 = 65535

\* The status join returns is the truncated argument.
C20_StatusKept ==
    /\ task.state = "exited" => C20_IsLow32Signed(task.code, uctx.arg0)
    /\ joins = 1 => C20_IsLow32Signed(exit_code, uctx.arg0)

\* C20: the exit status is argument 0 of the exit syscall reduced modulo
\* 2^32 and read as a two's-complement signed 32-bit integer (values with
\* bit 31 set are negative), and the value written for an unimplemented
\* syscall is 2^64 - 38.
C20_ExitStatusWidth ==
    /\ [][C20_ExitStep /\ C20_RetvalStep]_vars
    /\ []C20_StatusKept

C20_Witness ==
    /\ joins = 1
    /\ uctx.arg0 = U64(0, 0, 32768, 0)
    /\ exit_code = -2147483647 - 1
    /\ served > 0
    /\ uctx.retval = U64(65535, 65535, 65535, 65498)

====
